---------------------------- MODULE Spec2Model ----------------------------
(***************************************************************************)
(* Word Guesser (src/app.py): the similarity scorer, the hint generator,   *)
(* the target fetch and the per-session game state driven by the script    *)
(* reruns of main().                                                       *)
(*                                                                         *)
(* Strings are sequences of one-character strings, so that lower(),        *)
(* isalpha(), capitalize(), replace() and difflib's ratio() act on         *)
(* characters as they do in Python.  Real numbers are exact fractions      *)
(* <<numerator, denominator>>.                                             *)
(***************************************************************************)
EXTENDS Integers, Sequences, FiniteSets, TLC

\* Python's None.  It is the empty tuple here: like None it is falsy, and no
\* string the program stores where None may stand is empty (a fetched word is
\* isalpha(), a submitted guess is non-empty).
None == <<>>

---------------------------------------------------------------------------
(* Python str methods used by the program *)

ascii_uppercase ==
  <<"A","B","C","D","E","F","G","H","I","J","K","L","M",
    "N","O","P","Q","R","S","T","U","V","W","X","Y","Z">>

ascii_lowercase ==
  <<"a","b","c","d","e","f","g","h","i","j","k","l","m",
    "n","o","p","q","r","s","t","u","v","w","x","y","z">>

IndexOf(c, alphabet) ==
  IF \E i \in 1..Len(alphabet) : alphabet[i] = c
  THEN CHOOSE i \in 1..Len(alphabet) : alphabet[i] = c
  ELSE 0

lower_char(c) ==
  IF IndexOf(c, ascii_uppercase) > 0
  THEN ascii_lowercase[IndexOf(c, ascii_uppercase)]
  ELSE c

upper_char(c) ==
  IF IndexOf(c, ascii_lowercase) > 0
  THEN ascii_uppercase[IndexOf(c, ascii_lowercase)]
  ELSE c

\* str.lower()
lower(s) == [i \in 1..Len(s) |-> lower_char(s[i])]

\* str.capitalize(): first character upper-cased, the rest lower-cased
capitalize(s) ==
  [i \in 1..Len(s) |-> IF i = 1 THEN upper_char(s[i]) ELSE lower_char(s[i])]

\* str.isalpha(): non-empty and every character a letter
isalpha(s) ==
  /\ Len(s) > 0
  /\ \A i \in 1..Len(s) :
       IndexOf(s[i], ascii_uppercase) > 0 \/ IndexOf(s[i], ascii_lowercase) > 0

\* str.replace(old, new) for a non-empty old: leftmost, non-overlapping
RECURSIVE replace(_, _, _)
replace(s, old, new) ==
  IF Len(s) < Len(old) THEN s
  ELSE IF SubSeq(s, 1, Len(old)) = old
       THEN new \o replace(SubSeq(s, Len(old) + 1, Len(s)), old, new)
       ELSE <<s[1]>> \o replace(Tail(s), old, new)

RECURSIVE Flatten(_)
Flatten(ss) == IF ss = <<>> THEN <<>> ELSE Head(ss) \o Flatten(Tail(ss))

Range(s) == {s[i] : i \in 1..Len(s)}

---------------------------------------------------------------------------
(* difflib.SequenceMatcher(None, a, b).ratio()  (Ratcliff/Obershelp) *)

\* The longest matching block <<i, j, k>> (a[i..i+k-1] = b[j..j+k-1]): of the
\* longest ones the earliest in a, and of those the earliest in b.
find_longest_match(a, b) ==
  LET blocks == {m \in (1..Len(a)) \X (1..Len(b)) \X (1..Len(a)) :
                   /\ m[1] + m[3] - 1 <= Len(a)
                   /\ m[2] + m[3] - 1 <= Len(b)
                   /\ SubSeq(a, m[1], m[1] + m[3] - 1)
                        = SubSeq(b, m[2], m[2] + m[3] - 1)}
  IN IF blocks = {} THEN <<1, 1, 0>>
     ELSE CHOOSE m \in blocks : \A n \in blocks :
            \/ m[3] > n[3]
            \/ m[3] = n[3] /\ m[1] < n[1]
            \/ m[3] = n[3] /\ m[1] = n[1] /\ m[2] <= n[2]

\* The number of matched characters: the longest block, then recursively the
\* pieces to its left and to its right.
RECURSIVE get_matching_blocks(_, _)
get_matching_blocks(a, b) ==
  IF a = <<>> \/ b = <<>> THEN 0
  ELSE LET m == find_longest_match(a, b)
       IN IF m[3] = 0 THEN 0
          ELSE m[3]
               + get_matching_blocks(SubSeq(a, 1, m[1] - 1), SubSeq(b, 1, m[2] - 1))
               + get_matching_blocks(SubSeq(a, m[1] + m[3], Len(a)),
                                     SubSeq(b, m[2] + m[3], Len(b)))

\* ratio() = 2.0 * matches / (len(a) + len(b)), 1.0 for two empty strings
ratio(a, b) ==
  IF Len(a) + Len(b) = 0 THEN <<1, 1>>
  ELSE <<2 * get_matching_blocks(a, b), Len(a) + Len(b)>>

---------------------------------------------------------------------------
(* The lexical data the program reads: a small WordNet and Brown corpus *)

\* Spellings, as character sequences.
W ==
  [dog |-> <<"d","o","g">>,
   BOG |-> <<"B","O","G">>,
   car |-> <<"c","a","r">>,
   Car |-> <<"C","a","r">>,
   auto |-> <<"a","u","t","o">>,
   beast |-> <<"b","e","a","s","t">>,
   brute |-> <<"b","r","u","t","e">>,
   pet |-> <<"p","e","t">>,
   thing |-> <<"t","h","i","n","g">>,
   it |-> <<"i","t">>,
   rome |-> <<"r","o","m","e">>,
   Rome |-> <<"R","o","m","e">>,
   geo |-> <<"g","e","o">>,
   blob |-> <<"b","l","o","b">>,
   bog |-> <<"b","o","g">>,
   a |-> <<"a">>,
   any |-> <<"a","n","y">>,
   item |-> <<"i","t","e","m">>,
   big |-> <<"b","i","g">>,
   wild |-> <<"w","i","l","d">>,
   one |-> <<"o","n","e">>,
   tame |-> <<"t","a","m","e">>,
   road |-> <<"r","o","a","d">>,
   my |-> <<"m","y">>,
   show |-> <<"s","h","o","w">>,
   city |-> <<"c","i","t","y">>,
   ice_cream |-> <<"i","c","e"," ","c","r","e","a","m">>,
   mask |-> <<"_","_","_">>]

\* nltk.corpus.wordnet: synsets in sense-rank order.  Hypernym edges:
\*   thing <- beast <- dog,  thing <- pet <- dog
\* car, rome and geo are roots of hierarchies of their own (as synsets of
\* different parts of speech are), so they share no hypernym with the rest.
wordnet_ids ==
  <<"thing.n.01", "beast.n.01", "pet.n.01", "dog.n.01", "car.n.01",
    "rome.n.01", "geo.n.01">>

wordnet ==
  [s \in Range(wordnet_ids) |->
     CASE s = "thing.n.01" ->
            [name |-> W.thing, lemmas |-> <<W.thing, W.it>>, hypernyms |-> <<>>,
             definition |-> <<W.any, W.item>>,
             examples |-> <<>>, topic_domains |-> <<>>]
       [] s = "beast.n.01" ->
            [name |-> W.beast, lemmas |-> <<W.beast, W.brute>>,
             hypernyms |-> <<"thing.n.01">>,
             definition |-> <<W.a, W.big, W.wild, W.one>>,
             examples |-> <<>>, topic_domains |-> <<>>]
       [] s = "pet.n.01" ->
            [name |-> W.pet, lemmas |-> <<W.pet>>,
             hypernyms |-> <<"thing.n.01">>,
             definition |-> <<W.a, W.tame, W.one>>,
             examples |-> <<>>, topic_domains |-> <<>>]
       [] s = "dog.n.01" ->
            [name |-> W.dog, lemmas |-> <<W.dog, W.pet>>,
             hypernyms |-> <<"beast.n.01", "pet.n.01">>,
             definition |-> <<W.a, W.tame, W.beast>>,
             examples |-> <<>>, topic_domains |-> <<>>]
       [] s = "car.n.01" ->
            [name |-> W.car, lemmas |-> <<W.car, W.auto>>, hypernyms |-> <<>>,
             definition |-> <<W.a, W.road, W.item>>,
             examples |-> << <<W.my, W.car>>, <<W.a, W.Car, W.show>> >>,
             topic_domains |-> <<>>]
       [] s = "rome.n.01" ->
            [name |-> W.rome, lemmas |-> <<W.Rome>>, hypernyms |-> <<>>,
             definition |-> <<W.a, W.city>>,
             examples |-> <<>>, topic_domains |-> <<"geo.n.01">>]
       [] s = "geo.n.01" ->
            [name |-> W.geo, lemmas |-> <<W.geo>>, hypernyms |-> <<>>,
             definition |-> <<W.any, W.road>>,
             examples |-> <<>>, topic_domains |-> <<>>]]

\* word_freq = Counter(word.lower() for word in brown.words()); a word that
\* is not listed occurs 0 times.
word_freq ==
  [w \in {W.auto, W.pet, W.rome, W.thing, W.dog, W.car} |->
     CASE w = W.auto -> 5 [] w = W.pet -> 8 [] w = W.rome -> 30
       [] w = W.thing -> 333 [] w = W.dog -> 75 [] w = W.car -> 274]

\* wordnet.synsets(word): the synsets having the lower-cased word among their
\* lower-cased lemma names, in sense-rank order.
synsets(word) ==
  SelectSeq(wordnet_ids,
            LAMBDA s : \E i \in 1..Len(wordnet[s].lemmas) :
                         lower(wordnet[s].lemmas[i]) = lower(word))

---------------------------------------------------------------------------
(* Exact fractions <<n, d>>, d > 0 *)

RECURSIVE GCD(_, _)
GCD(m, n) == IF n = 0 THEN m ELSE GCD(n, m % n)

Abs(n) == IF n < 0 THEN -n ELSE n

\* The fraction in lowest terms.
Frac(n, d) == <<n \div GCD(Abs(n), d), d \div GCD(Abs(n), d)>>

FracAdd(x, y) == Frac(x[1] * y[2] + y[1] * x[2], x[2] * y[2])
FracSub(x, y) == Frac(x[1] * y[2] - y[1] * x[2], x[2] * y[2])
FracMul(x, y) == Frac(x[1] * y[1], x[2] * y[2])
FracLess(x, y) == x[1] * y[2] < y[1] * x[2]
Min(S) == CHOOSE m \in S : \A n \in S : m <= n
Max(S) == CHOOSE m \in S : \A n \in S : m >= n

\* int(x) of a double x whose exact value is the fraction x: truncation
\* toward zero.  The double arithmetic that produced x is not followed bit by
\* bit: when the exact value is a positive integer q the double may lie just
\* below it, and int() then gives q - 1 (int((1 - 0.8) * 1000) is 199).
\* `below` (0 or 1) is that rounding outcome; it has no effect on a value that
\* is not an integer, nor on 0.
int(x, below) ==
  LET q == IF x[1] >= 0 THEN x[1] \div x[2] ELSE -((-x[1]) \div x[2])
  IN IF x[1] % x[2] = 0 /\ q >= 1 THEN q - below ELSE q

---------------------------------------------------------------------------
(* nltk Synset measures used by the scorer *)

\* Every hypernym of s (s included) with the lengths of the hypernym paths
\* leading to it: the set of <<ancestor, distance>>.
RECURSIVE hypernym_distances(_)
hypernym_distances(s) ==
  {<<s, 0>>} \cup
  UNION {{<<e[1], e[2] + 1>> : e \in hypernym_distances(p)} :
           p \in Range(wordnet[s].hypernyms)}

common_hypernyms(s1, s2) ==
  {e[1] : e \in hypernym_distances(s1)} \cap {e[1] : e \in hypernym_distances(s2)}

hypernym_distance(s, c) == Min({e[2] : e \in {x \in hypernym_distances(s) : x[1] = c}})

\* Synset.shortest_path_distance of two synsets that share a hypernym
shortest_path_distance(s1, s2) ==
  Min({hypernym_distance(s1, c) + hypernym_distance(s2, c) :
         c \in common_hypernyms(s1, s2)})

\* Synset.path_similarity: 1 / (distance + 1); None when the synsets share no
\* hypernym (shortest_path_distance is None)
path_similarity(s1, s2) ==
  IF common_hypernyms(s1, s2) = {} THEN None
  ELSE <<1, shortest_path_distance(s1, s2) + 1>>

RECURSIVE min_depth(_)
min_depth(s) ==
  IF wordnet[s].hypernyms = <<>> THEN 0
  ELSE 1 + Min({min_depth(p) : p \in Range(wordnet[s].hypernyms)})

RECURSIVE max_depth(_)
max_depth(s) ==
  IF wordnet[s].hypernyms = <<>> THEN 0
  ELSE 1 + Max({max_depth(p) : p \in Range(wordnet[s].hypernyms)})

\* Synset.lowest_common_hypernyms(use_min_depth=True)
lowest_common_hypernyms(s1, s2) ==
  {c \in common_hypernyms(s1, s2) :
     \A c2 \in common_hypernyms(s1, s2) : min_depth(c) >= min_depth(c2)}

\* Synset.wup_similarity: 2 * depth(lcs) / (len1 + len2), or None
wup_similarity(s1, s2) ==
  IF lowest_common_hypernyms(s1, s2) = {} THEN None
  ELSE LET subsumer == IF s1 \in lowest_common_hypernyms(s1, s2) THEN s1
                       ELSE CHOOSE c \in lowest_common_hypernyms(s1, s2) : TRUE
           depth == max_depth(subsumer) + 1
           len1 == shortest_path_distance(s1, subsumer) + depth
           len2 == shortest_path_distance(s2, subsumer) + depth
       IN <<2 * depth, len1 + len2>>

---------------------------------------------------------------------------
(* calculate_enhanced_similarity *)

\* x or 0
or_zero(x) == IF x = None THEN <<0, 1>> ELSE x

\* set(text.lower().split()) of a text given as its words
token_set(text) == {lower(text[i]) : i \in 1..Len(text)}

\* len(a & b) / max(len(a | b), 1)
jaccard(a, b) == <<Cardinality(a \cap b), Max({Cardinality(a \cup b), 1})>>

\* Mutant of combine: weights that sum to more than 1.
combine_overweight(path_sim, wup_sim, def_sim, usage_sim) ==
  FracAdd(FracAdd(FracMul(path_sim, <<3, 10>>), FracMul(wup_sim, <<3, 10>>)),
          FracAdd(FracMul(def_sim, <<3, 10>>), FracMul(usage_sim, <<2, 10>>)))

\* path_sim * 0.3 + wup_sim * 0.3 + def_sim * 0.2 + usage_sim * 0.2
combine(path_sim, wup_sim, def_sim, usage_sim) ==
  FracAdd(FracAdd(FracMul(path_sim, <<3, 10>>), FracMul(wup_sim, <<3, 10>>)),
          FracAdd(FracMul(def_sim, <<2, 10>>), FracMul(usage_sim, <<2, 10>>)))

\* Mutant of fallback_similarity: the similarity is returned, not the distance.
fallback_similarity_not_inverted(a, b) == int(FracMul(ratio(a, b), <<1000, 1>>), 0)

\* 1000 - int(SequenceMatcher(None, a, b).ratio() * 1000).  ratio * 1000 is
\* exact in doubles whenever it is an integer and len(a) + len(b) <= 20, which
\* covers every pair of words of the model.
fallback_similarity(a, b) == 1000 - int(FracMul(ratio(a, b), <<1000, 1>>), 0)

\* int((1 - combined_sim) * 1000); `below` is the rounding outcome of the
\* double arithmetic (see int), none when every term of the sum is 0.
blended_similarity(path_sim, wup_sim, def_sim, usage_sim, below) ==
  LET combined_sim == combine(path_sim, wup_sim, def_sim, usage_sim)
  IN int(FracMul(FracSub(<<1, 1>>, combined_sim), <<1000, 1>>),
         IF combined_sim[1] = 0 THEN 0 ELSE below)

\* The score of a guess against the target.
calculate_enhanced_similarity(guess, target, below) ==
  LET guess_synsets == synsets(lower(guess))
      target_synsets == synsets(lower(target))
  IN IF guess_synsets = <<>> \/ target_synsets = <<>>
     THEN fallback_similarity(lower(guess), lower(target))
     ELSE LET guess_synset == guess_synsets[1]
              target_synset == target_synsets[1]
              path_sim == or_zero(path_similarity(guess_synset, target_synset))
              wup_sim == or_zero(wup_similarity(guess_synset, target_synset))
              def_sim == jaccard(token_set(wordnet[guess_synset].definition),
                                 token_set(wordnet[target_synset].definition))
              guess_examples == token_set(Flatten(wordnet[guess_synset].examples))
              target_examples == token_set(Flatten(wordnet[target_synset].examples))
              usage_sim == IF guess_examples # {} /\ target_examples # {}
                           THEN jaccard(guess_examples, target_examples)
                           ELSE <<0, 1>>
          IN blended_similarity(path_sim, wup_sim, def_sim, usage_sim, below)

---------------------------------------------------------------------------
(* get_word_complexity and get_enhanced_semantic_hints *)

\* 1 - ((freq_factor + (1 - length_factor)) / 2), as an exact fraction
get_word_complexity(word) ==
  LET freq == IF lower(word) \in DOMAIN word_freq THEN word_freq[lower(word)] ELSE 0
      length_factor == <<Len(word), 10>>
      freq_factor == IF freq = 0 THEN <<0, 1>> ELSE <<Min({1000, freq}), 1000>>
  IN FracSub(<<1, 1>>,
             FracMul(FracAdd(freq_factor, FracSub(<<1, 1>>, length_factor)), <<1, 2>>))

\* Synset.hypernym_paths(): every path from a root down to s, s included
RECURSIVE hypernym_paths(_)
hypernym_paths(s) ==
  IF wordnet[s].hypernyms = <<>> THEN << <<s>> >>
  ELSE Flatten([i \in 1..Len(wordnet[s].hypernyms) |->
                  [j \in 1..Len(hypernym_paths(wordnet[s].hypernyms[i])) |->
                     Append(hypernym_paths(wordnet[s].hypernyms[i])[j], s)]])

\* path[-3:]
last3(path) == SubSeq(path, Max({1, Len(path) - 2}), Len(path))

\* random.sample(population, k): every ordered choice of k distinct positions
sample(population, k) ==
  {[i \in 1..k |-> population[f[i]]] :
     f \in {g \in [1..k -> 1..Len(population)] :
              \A i, j \in 1..k : i # j => g[i] # g[j]}}

\* random.shuffle(x): every ordering of x
shuffle(x) == sample(x, Len(x))

\* A hint is the pair <<kind, text>>; the rendered text f"{prefix}{body}" is
\* the pair <<prefix, body>>, the body being its words (joined by one space).
synonym_hints(word, s) ==
  LET lemma_names == wordnet[s].lemmas
      kept == SelectSeq(lemma_names,
                LAMBDA synonym : /\ synonym # word
                                 /\ Len(synonym) > 2
                                 /\ FracLess(get_word_complexity(synonym), <<7, 10>>))
  IN [i \in 1..Len(kept) |-> <<"synonym", <<"Similar word: ", <<kept[i]>> >> >>]

category_hints(word, s) ==
  LET levels == Flatten([p \in 1..Len(hypernym_paths(s)) |-> last3(hypernym_paths(s)[p])])
      lemma_names == Flatten([i \in 1..Len(levels) |-> wordnet[levels[i]].lemmas])
      kept == SelectSeq(lemma_names, LAMBDA name : name # word /\ Len(name) > 2)
  IN [i \in 1..Len(kept) |-> <<"category", <<"Type of: ", <<kept[i]>> >> >>]

stop_words == {<<"t","h","e">>, <<"a","n","d">>, <<"o","r">>, <<"a">>, <<"a","n">>, <<"i","n">>, <<"o","f">>, <<"t","o">>, <<"f","o","r">>}

\* The possible definition hints: none, or one naming min(3, len(key_words))
\* sampled key words.
definition_hints(s) ==
  LET def_words == wordnet[s].definition
      key_words == SelectSeq(def_words,
                     LAMBDA w : Len(w) > 3 /\ lower(w) \notin stop_words)
  IN IF Len(def_words) > 3 /\ key_words # <<>>
     THEN {<< <<"definition", <<"Definition contains: ", hint_phrase>> >> >> :
             hint_phrase \in sample(key_words, Min({3, Len(key_words)}))}
     ELSE {<<>>}

\* example.replace(word, "___").replace(word.capitalize(), "___"), word by word
masked(example, word) ==
  [i \in 1..Len(example) |->
     replace(replace(example[i], word, W.mask), capitalize(word), W.mask)]

\* The possible usage hints: none, or one for a randomly chosen example.
usage_hints(word, s) ==
  IF wordnet[s].examples # <<>>
  THEN {<< <<"usage", <<"Used in: ", masked(example, word)>> >> >> :
          example \in Range(wordnet[s].examples)}
  ELSE {<<>>}

\* domain.name().split('.')[0] for each topic domain
domain_hints(s) ==
  [i \in 1..Len(wordnet[s].topic_domains) |->
     <<"domain", <<"Related to: ", <<wordnet[wordnet[s].topic_domains[i]].name>> >> >>]

\* Remove duplicates while preserving order: a hint is kept when no earlier
\* hint has its text.
unique_hints(hints) ==
  LET keep == {i \in 1..Len(hints) : \A j \in 1..(i - 1) : hints[j][2] # hints[i][2]}
      nth(k) == CHOOSE i \in keep : Cardinality({j \in keep : j < i}) = k - 1
  IN [k \in 1..Cardinality(keep) |-> hints[nth(k)]]

\* Every list get_enhanced_semantic_hints(word) may return (the random sample,
\* the random example and the random order range over all their outcomes).
get_enhanced_semantic_hints(word) ==
  IF synsets(word) = <<>> THEN {<<>>}
  ELSE LET primary_synset == synsets(word)[1]
       IN UNION {shuffle(unique_hints(synonym_hints(word, primary_synset)
                                       \o category_hints(word, primary_synset)
                                       \o d \o u
                                       \o domain_hints(primary_synset))) :
                   <<d, u>> \in definition_hints(primary_synset)
                                \X usage_hints(word, primary_synset)}

---------------------------------------------------------------------------
(* fetch_random_noun *)

\* What requests.get may meet: no connection (it raises), or a response with
\* a status code and, for 200, the JSON list of words.
Responses ==
  {[reachable |-> FALSE, status_code |-> 0, words |-> <<>>],
   [reachable |-> TRUE, status_code |-> 500, words |-> <<>>],
   [reachable |-> TRUE, status_code |-> 200, words |-> <<>>],
   [reachable |-> TRUE, status_code |-> 200, words |-> <<W.ice_cream>>],
   [reachable |-> TRUE, status_code |-> 200, words |-> <<W.car, W.ice_cream, W.rome>>],
   [reachable |-> TRUE, status_code |-> 200, words |-> <<W.beast, W.blob>>]}

\* Every outcome of one call: raised (the exception of requests.get, which
\* nothing catches), or a returned value with the st.error shown or not.
fetch_random_noun(response) ==
  IF ~response.reachable
  THEN {[raised |-> TRUE, value |-> None, error |-> FALSE]}
  ELSE LET single_word_nouns == SelectSeq(response.words, isalpha)
       IN IF response.status_code = 200 /\ single_word_nouns # <<>>
          THEN {[raised |-> FALSE, value |-> word, error |-> FALSE] :
                  word \in Range(single_word_nouns)}
          ELSE {[raised |-> FALSE, value |-> None, error |-> TRUE]}

---------------------------------------------------------------------------
(* The session: st.session_state and what the last script run displayed *)

VARIABLES
  session_keys,      \* the keys present in st.session_state (used_hints, which
                     \* is only ever set to [] and never read, is a key only)
  target_word,       \* st.session_state.target_word: a word or None
  game_over,         \* st.session_state.game_over
  previous_guesses,  \* st.session_state.previous_guesses: lower-cased guess -> score
  hints,             \* st.session_state.hints
  hint_count,        \* st.session_state.hint_count
  event,             \* the last script run: its trigger and what it did and showed
  revealed           \* the hints shown since the game began, in order

vars == <<session_keys, target_word, game_over, previous_guesses, hints,
          hint_count, event, revealed>>

session == <<session_keys, target_word, game_over, previous_guesses, hints, hint_count>>

\* The texts a player may type into the guess box (non-empty).
Guesses == {W.car, W.Car, W.auto, W.beast, W.blob}

NoResponse == [reachable |-> TRUE, status_code |-> 0, words |-> <<>>]

\* A script run that did nothing yet.
Quiet(op) ==
  [op |-> op, guess |-> None, response |-> NoResponse, fetched |-> FALSE,
   raised |-> FALSE, scored |-> FALSE, score |-> -1, msgs |-> {}, hint |-> None,
   inputs |-> None]

AllKeys == {"target_word", "game_over", "previous_guesses", "hints", "used_hints",
            "hint_count"}

\* An empty st.session_state (a new browser session); the values of missing
\* keys are held at the defaults init_session_state gives them.
Init ==
  /\ session_keys = {}
  /\ target_word = None
  /\ game_over = FALSE
  /\ previous_guesses = <<>>
  /\ hints = <<>>
  /\ hint_count = 0
  /\ event = Quiet("start")
  /\ revealed = <<>>

\* The page main() renders when no widget was triggered: the prompt, or the
\* error when the target is falsy.
page(target) == IF target # None THEN {"try_to_guess"} ELSE {"no_target"}

\* The widgets exist when the last render had a target to show them with.
Playing == "target_word" \in session_keys /\ target_word # None

\* First script run(s) of a session: init_session_state fetches the target.
\* When the fetch raises the run ends there and no key is set.
Load ==
  /\ "target_word" \notin session_keys
  /\ \E response \in Responses : \E out \in fetch_random_noun(response) :
       IF out.raised
       THEN /\ event' = [Quiet("load") EXCEPT !.response = response,
                           !.fetched = TRUE, !.raised = TRUE]
            /\ UNCHANGED <<session, revealed>>
       ELSE /\ session_keys' = AllKeys
            /\ target_word' = out.value
            /\ game_over' = FALSE
            /\ previous_guesses' = <<>>
            /\ hints' = <<>>
            /\ hint_count' = 0
            /\ revealed' = <<>>
            /\ event' = [Quiet("load") EXCEPT !.response = response, !.fetched = TRUE,
                           !.msgs = page(out.value) \cup
                                    (IF out.error THEN {"fetch_failed"} ELSE {})]

\* Mutant of feedback: the tier bounds taken as strict.
feedback_strict(similarity_score) ==
  IF similarity_score = 0 THEN "correct"
  ELSE IF similarity_score < 20 THEN "almost_there"
  ELSE IF similarity_score < 200 THEN "very_close"
  ELSE IF similarity_score < 500 THEN "getting_warmer"
  ELSE "not_quite"

\* The feedback shown for a score.
feedback(similarity_score) ==
  IF similarity_score = 0 THEN "correct"
  ELSE IF similarity_score <= 20 THEN "almost_there"
  ELSE IF similarity_score <= 200 THEN "very_close"
  ELSE IF similarity_score <= 500 THEN "getting_warmer"
  ELSE "not_quite"

\* Storing and reporting a computed score.
score_guess(user_guess, similarity_score) ==
  /\ previous_guesses' =
       [g \in DOMAIN previous_guesses \cup {lower(user_guess)} |->
          IF g = lower(user_guess) THEN similarity_score ELSE previous_guesses[g]]
  /\ game_over' = (game_over \/ similarity_score = 0)
  /\ event' = [Quiet("submit") EXCEPT !.guess = user_guess, !.scored = TRUE,
                 !.score = similarity_score,
                 !.msgs = {"try_to_guess", "distance", feedback(similarity_score)}]
  /\ UNCHANGED <<session_keys, target_word, hints, hint_count, revealed>>

\* Mutant of is_duplicate: the guess is looked up as typed.
is_duplicate_as_typed(user_guess) == user_guess \in DOMAIN previous_guesses

\* user_guess.lower() in st.session_state.previous_guesses
is_duplicate(user_guess) == lower(user_guess) \in DOMAIN previous_guesses

\* Mutant of may_score: a new guess is scored whether the game is over or not.
may_score_always == TRUE

\* not st.session_state.game_over
may_score == ~game_over

\* Submit Guess with a non-empty text.
SubmitGuess(user_guess) ==
  /\ Playing
  /\ IF is_duplicate(user_guess)
     THEN /\ event' = [Quiet("submit") EXCEPT !.guess = user_guess,
                         !.msgs = {"try_to_guess", "already_guessed"}]
          /\ UNCHANGED <<session, revealed>>
     ELSE IF may_score
     THEN \E below \in {0, 1} :
            score_guess(user_guess,
                        calculate_enhanced_similarity(user_guess, target_word, below))
     ELSE /\ event' = [Quiet("submit") EXCEPT !.guess = user_guess,
                         !.msgs = {"try_to_guess"}]
          /\ UNCHANGED <<session, revealed>>

\* Mutant of hint_request: at the end of the list the cursor wraps to the
\* first hint.
hint_request_wrapping(generated) ==
  IF generated # <<>>
  THEN IF hint_count < Len(generated)
       THEN [shown |-> generated[hint_count + 1], count |-> hint_count + 1,
             msg |-> IF generated[hint_count + 1][1] = "synonym"
                     THEN "hint_info" ELSE "hint_success"]
       ELSE [shown |-> generated[1], count |-> 1,
             msg |-> IF generated[1][1] = "synonym" THEN "hint_info" ELSE "hint_success"]
  ELSE [shown |-> None, count |-> hint_count, msg |-> "could_not_generate"]

\* What a hint request shows for the list `generated`, and the cursor after.
hint_request(generated) ==
  IF generated # <<>>
  THEN IF hint_count < Len(generated)
       THEN [shown |-> generated[hint_count + 1], count |-> hint_count + 1,
             msg |-> IF generated[hint_count + 1][1] = "synonym"
                     THEN "hint_info" ELSE "hint_success"]
       ELSE [shown |-> None, count |-> hint_count, msg |-> "no_more_hints"]
  ELSE [shown |-> None, count |-> hint_count, msg |-> "could_not_generate"]

\* Get Hint: the list is generated when the stored one is empty.
GetHint ==
  /\ Playing
  /\ \E generated \in (IF hints = <<>> THEN get_enhanced_semantic_hints(target_word)
                       ELSE {hints}) :
       /\ hints' = generated
       /\ hint_count' = hint_request(generated).count
       /\ revealed' = IF hint_request(generated).shown # None
                      THEN Append(revealed, hint_request(generated).shown)
                      ELSE revealed
       /\ event' = [Quiet("hint") EXCEPT
                      !.hint = hint_request(generated).shown,
                      !.msgs = {"try_to_guess", hint_request(generated).msg}]
  /\ UNCHANGED <<session_keys, target_word, game_over, previous_guesses>>

\* reset_game() with the fetch having returned `value`.
reset_game(value) ==
  /\ target_word' = value
  /\ game_over' = FALSE
  /\ previous_guesses' = <<>>
  /\ hints' = <<>>
  /\ hint_count' = 0

\* New Game: reset_game() and st.rerun(), the rerun rendering the page.  When
\* the fetch raises, reset_game stops at its first line.
NewGame ==
  /\ Playing
  /\ \E response \in Responses : \E out \in fetch_random_noun(response) :
       IF out.raised
       THEN /\ event' = [Quiet("new_game") EXCEPT !.response = response,
                           !.fetched = TRUE, !.raised = TRUE,
                           !.msgs = {"try_to_guess"}]
            /\ UNCHANGED <<session, revealed>>
       ELSE /\ reset_game(out.value)
            /\ revealed' = <<>>
            /\ event' = [Quiet("new_game") EXCEPT !.response = response,
                           !.fetched = TRUE,
                           !.msgs = page(out.value) \cup
                                    (IF out.error THEN {"fetch_failed"} ELSE {})]
            /\ UNCHANGED session_keys

\* Reveal Answer.
RevealAnswer ==
  /\ Playing
  /\ event' = [Quiet("reveal") EXCEPT !.msgs = {"try_to_guess", "the_word_was"}]
  /\ UNCHANGED <<session, revealed>>

\* A script run with no widget triggered (any rerun of an initialised session).
Rerun ==
  /\ "target_word" \in session_keys
  /\ event' = [Quiet("rerun") EXCEPT !.msgs = page(target_word)]
  /\ UNCHANGED <<session, revealed>>

\* The page is refreshed: a new session with an empty st.session_state.
Refresh ==
  /\ "target_word" \in session_keys
  /\ session_keys' = {}
  /\ target_word' = None
  /\ game_over' = FALSE
  /\ previous_guesses' = <<>>
  /\ hints' = <<>>
  /\ hint_count' = 0
  /\ revealed' = <<>>
  /\ event' = Quiet("refresh")

Next ==
  \/ Load
  \/ \E user_guess \in Guesses : SubmitGuess(user_guess)
  \/ GetHint
  \/ NewGame
  \/ RevealAnswer
  \/ Rerun
  \/ Refresh

Spec == Init /\ [][Next]_vars

---------------------------------------------------------------------------
(* The scorer alone: every pair of words, and every blend of sub-scores *)

ScorerWords ==
  {W.car, W.Car, W.auto, W.beast, W.pet, W.dog, W.rome, W.geo, W.blob, W.bog, W.BOG}

\* The sub-scores a blend is tried with: every fraction of [0, 1] with a
\* denominator up to MaxDenominator.
MaxDenominator == 3

SubScores ==
  {Frac(p[1], p[2]) : p \in {q \in (0..MaxDenominator) \X (1..MaxDenominator) :
                               q[1] <= q[2]}}

ScorerInit ==
  /\ session_keys = AllKeys
  /\ target_word \in ScorerWords
  /\ game_over = FALSE
  /\ previous_guesses = <<>>
  /\ hints = <<>>
  /\ hint_count = 0
  /\ event = Quiet("start")
  /\ revealed = <<>>

\* One guess scored against the target.
ScoreWords ==
  /\ event.op = "start"
  /\ \E user_guess \in ScorerWords, below \in {0, 1} :
       score_guess(user_guess,
                   calculate_enhanced_similarity(user_guess, target_word, below))

\* One blend of four sub-scores.
ScoreBlend ==
  /\ event.op = "start"
  /\ \E path_sim, wup_sim, def_sim, usage_sim \in SubScores, below \in {0, 1} :
       event' = [Quiet("blend") EXCEPT
                   !.scored = TRUE,
                   !.inputs = <<path_sim, wup_sim, def_sim, usage_sim>>,
                   !.score = blended_similarity(path_sim, wup_sim, def_sim,
                                                usage_sim, below)]
  /\ UNCHANGED <<session, revealed>>

ScorerNext == ScoreWords \/ ScoreBlend

ScorerSpec == ScorerInit /\ [][ScorerNext]_vars

---------------------------------------------------------------------------
(* The feedback alone: every distance *)

MaxDistance == 1000

TierInit ==
  /\ session_keys = AllKeys
  /\ target_word = W.car
  /\ game_over = FALSE
  /\ previous_guesses = <<>>
  /\ hints = <<>>
  /\ hint_count = 0
  /\ event = Quiet("start")
  /\ revealed = <<>>

\* A new guess is stored and reported with the distance d.
TierNext ==
  /\ event.op = "start"
  /\ \E d \in 0..MaxDistance : score_guess(W.bog, d)

TierSpec == TierInit /\ [][TierNext]_vars

---------------------------------------------------------------------------
(* Properties *)

\* The run scored a guess of the game (not a bare blend).
ScoredGuess == event.scored /\ event.guess # None

HasSenses(word) == synsets(word) # <<>>

\* floor(1000 * 2 * M / T): the string similarity in thousandths
RatioMilli(a, b) == (2000 * get_matching_blocks(a, b)) \div (Len(a) + Len(b))

\* C1: a scored guess has distance 0 if and only if it equals the target
\* case-insensitively.
C1_ZeroIffEqual ==
  ScoredGuess => (event.score = 0 <=> lower(event.guess) = lower(target_word))

\* C2: every score the scorer returns, for words with or without senses and
\* for every blend of sub-scores in [0, 1], is an integer from 0 to 1000.
C2_ScoreInRange == event.scored => event.score \in 0..1000

\* The blend of four zero sub-scores reached the upper bound.
C2_Witness ==
  /\ event.op = "blend"
  /\ event.inputs = <<<<0, 1>>, <<0, 1>>, <<0, 1>>, <<0, 1>>>>
  /\ event.score = 1000

\* C3: submitting a guess whose lower-cased text is already stored changes
\* nothing of the session, in every game state, and the scorer is not called.
C3_DuplicateRejected ==
  [][\A user_guess \in Guesses :
       (lower(user_guess) \in DOMAIN previous_guesses /\ SubmitGuess(user_guess))
         => /\ UNCHANGED <<previous_guesses, game_over, target_word, hints, hint_count>>
            /\ ~event'.scored
            /\ "already_guessed" \in event'.msgs]_vars

\* A guess stored in lower case was resubmitted in another case after the
\* game was over.
C3_Witness ==
  /\ event.op = "submit"
  /\ "already_guessed" \in event.msgs
  /\ game_over
  /\ event.guess \notin DOMAIN previous_guesses
  /\ lower(event.guess) \in DOMAIN previous_guesses

\* C4: after New Game the guesses and the hints are empty, the hint cursor is
\* 0, the game is not over and the target is what the fresh fetch gave (a
\* word of the response, None when it has none).
C4_ResetClears ==
  event.op = "new_game" =>
    /\ DOMAIN previous_guesses = {}
    /\ hints = <<>>
    /\ hint_count = 0
    /\ ~game_over
    /\ target_word \in {out.value : out \in fetch_random_noun(event.response)}

Tiers == {"correct", "almost_there", "very_close", "getting_warmer", "not_quite"}

\* C5: the feedback is the tier of the table for the distance d, exactly one
\* tier for each d, and the game is over exactly for d = 0.
C5_TierTable ==
  event.scored =>
    LET d == event.score
    IN /\ Cardinality(event.msgs \cap Tiers) = 1
       /\ d = 0 => "correct" \in event.msgs /\ game_over
       /\ d > 0 => ~game_over
       /\ (0 < d /\ d <= 20) => "almost_there" \in event.msgs
       /\ (20 < d /\ d <= 200) => "very_close" \in event.msgs
       /\ (200 < d /\ d <= 500) => "getting_warmer" \in event.msgs
       /\ d > 500 => "not_quite" \in event.msgs

\* The boundary d = 20 was scored and reported as "almost there".
C5_Witness ==
  event.scored /\ event.score = 20 /\ "almost_there" \in event.msgs

\* A step that begins a new game: a completed reset_game, or a new session.
GameRestarts == session_keys' = {} \/ (NewGame /\ ~event'.raised)

\* C6: the hint list of a game is generated once and consumed by a cursor:
\* a request below the end shows hints[cursor] and advances the cursor by
\* one; a request at the end of a non-empty list shows nothing, says "no more
\* hints" (not "could not generate") and leaves the cursor; the cursor stays
\* within 0..len(hints) and no hint text is shown twice in a game.
C6_HintCursor ==
  /\ [](/\ hint_count \in 0..Len(hints)
        /\ \A i, j \in 1..Len(revealed) : i # j => revealed[i][2] # revealed[j][2])
  /\ [][/\ (hints # <<>> /\ ~GameRestarts) => hints' = hints
        /\ (GetHint /\ hints' # <<>> /\ hint_count < Len(hints'))
             => /\ event'.hint = hints'[hint_count + 1]
                /\ hint_count' = hint_count + 1
        /\ (GetHint /\ hints' # <<>> /\ hint_count = Len(hints'))
             => /\ event'.hint = None
                /\ "no_more_hints" \in event'.msgs
                /\ "could_not_generate" \notin event'.msgs
                /\ hint_count' = hint_count
        /\ (GetHint /\ hints' = <<>>)
             => /\ "could_not_generate" \in event'.msgs
                /\ "no_more_hints" \notin event'.msgs]_vars

\* Every hint of a non-empty list was shown and one more was requested.
C6_Witness ==
  /\ event.op = "hint"
  /\ "no_more_hints" \in event.msgs
  /\ hints # <<>>
  /\ hint_count = Len(hints)
  /\ Len(revealed) = Len(hints)

\* C7: the fetch never raises: when the source is unreachable, answers
\* non-200 or has no alphabetic word the target is None; and with a target of
\* None the error is shown and nothing is scored, hinted or stored.
C7_FetchReturnsNone ==
  /\ (event.fetched /\ SelectSeq(event.response.words, isalpha) = <<>>)
       => (~event.raised /\ target_word = None /\ "no_target" \in event.msgs)
  /\ ("target_word" \in session_keys /\ target_word = None)
       => /\ DOMAIN previous_guesses = {} /\ hints = <<>> /\ hint_count = 0
          /\ ~event.scored /\ event.hint = None

\* C8: the generated hints have no two equal texts, none names the target
\* itself (case-insensitively) and none names a candidate of length <= 2.
\* The candidates of a usage hint are the words of its masked sentence, which
\* are held to the first two conditions only.
C8_HintsClean ==
  /\ \A i, j \in 1..Len(hints) : i # j => hints[i][2] # hints[j][2]
  /\ \A i \in 1..Len(hints) : \A k \in 1..Len(hints[i][2][2]) :
       /\ lower(hints[i][2][2][k]) # lower(target_word)
       /\ hints[i][1] # "usage" => Len(hints[i][2][2][k]) > 2

\* C9 as stated: with a word that has no senses the score is the string
\* fallback on the lower-cased words and lies in the worst tier.
C9_FallbackWorstTier ==
  (ScoredGuess /\ (~HasSenses(event.guess) \/ ~HasSenses(target_word)))
    => /\ event.score = 1000 - RatioMilli(lower(event.guess), lower(target_word))
       /\ event.score > 500

\* C9 amended: with a word that has no senses the score is the string
\* fallback on the lower-cased words, from 0 to 1000, and 0 for equal words.
C9_FallbackScore ==
  (ScoredGuess /\ (~HasSenses(event.guess) \/ ~HasSenses(target_word)))
    => /\ event.score = 1000 - RatioMilli(lower(event.guess), lower(target_word))
       /\ event.score \in 0..1000
       /\ lower(event.guess) = lower(target_word) => event.score = 0

\* A capitalised guess without senses scored at most 500 against a target
\* that has senses.
C9_Witness ==
  /\ ScoredGuess
  /\ ~HasSenses(event.guess)
  /\ HasSenses(target_word)
  /\ event.guess # lower(event.guess)
  /\ event.score <= 500

\* C10: once the game is over it stays over until a new game, guess
\* submissions then change nothing, and at every moment at most one stored
\* guess has score 0, the game being over exactly when one has.
C10_GameOverFinal ==
  /\ [](/\ Cardinality({g \in DOMAIN previous_guesses : previous_guesses[g] = 0}) <= 1
        /\ game_over <=> \E g \in DOMAIN previous_guesses : previous_guesses[g] = 0)
  /\ [][/\ (game_over /\ ~GameRestarts) => game_over'
        /\ \A user_guess \in Guesses : (game_over /\ SubmitGuess(user_guess))
             => UNCHANGED <<previous_guesses, game_over, target_word, hints,
                            hint_count>>]_vars

\* After the game was over a new guess that would have scored 0 was
\* submitted and not scored.
C10_Witness ==
  /\ game_over
  /\ event.op = "submit"
  /\ ~event.scored
  /\ lower(event.guess) \notin DOMAIN previous_guesses
  /\ calculate_enhanced_similarity(event.guess, target_word, 0) = 0

===========================================================================
